---- MODULE Spec2Model ----
(***************************************************************************)
(* Wordsearch Creator (src/assets/app.js).                                 *)
(*                                                                         *)
(* The module models the grid placement engine generateWordsearch as a     *)
(* state machine over its local data (grid, mark, owner, placements,       *)
(* failed and the two loop counters wi and a), and the form handlers       *)
(* build / Shuffle / difficulty change that call it.                       *)
(*                                                                         *)
(* Words are TLA+ strings; the JavaScript index word[i] (0-based) is       *)
(* charAt(word, i).  A grid coordinate is the pair <<x, y>>; the           *)
(* JavaScript grid[y][x] is grid[<<x, y>>].                                *)
(***************************************************************************)
EXTENDS Integers, Sequences, FiniteSets, TLC

VARIABLES
    words,          \* argument: the caller's word list
    size,           \* argument: grid dimension
    allowDiagonals, \* argument: 4 or 8 directions
    sorted,         \* const sorted (line 57)
    grid,           \* grid[y][x]: a letter or Null
    mark,           \* mark[y][x]: BOOLEAN
    owner,          \* owner[y][x]: NoOwner or a word index
    placements,     \* sequence of [word, cells]
    failed,         \* sequence of words
    wi,             \* index of the outer loop (line 119)
    a,              \* index of the trial loop (line 126)
    placed,         \* let placed (line 121)
    pc,             \* "placing" | "returned" | "ui"
    oob,            \* history: some grid index evaluated so far was outside 0..size-1
    titleValue,     \* titleEl.value
    authorValue,    \* authorEl.value
    wordsValue,     \* wordsEl.value
    sizeValue,      \* sizeEl.value
    diagonalsValue, \* diagonalsEl.value
    difficultyValue,\* difficultyEl.value
    lastPayload,    \* let lastPayload (line 232): << >> for null, else << payload >>
    formMsg,        \* formMsg.textContent
    shuffleDisabled,\* shuffleBtn.disabled
    call,           \* history: the generateWordsearch call of the latest handler
    lastBuild,      \* history: the outcome of the latest run of build
    run,            \* 0: Math.random is free; 1: its values are recorded; 2: replayed
    tape,           \* the recorded values of Math.random, per trial
    first,          \* << >> or << the result of the recorded call >>
    dom,            \* the elements render writes: outTitle, outAuthor, outDate, grid, wordList, warn
    clock,          \* the time new Date() reads, in half days
    renderArgs,     \* the arguments of the render calls under study
    shown           \* history: the dom after each of those calls, with the clock it read

engineVars == <<words, size, allowDiagonals, sorted, grid, mark, owner,
                placements, failed, wi, a, placed, pc, oob>>

uiVars == <<titleValue, authorValue, wordsValue, sizeValue, diagonalsValue,
            difficultyValue, lastPayload, formMsg, shuffleDisabled, call,
            lastBuild>>

replayVars == <<run, tape, first>>

renderVars == <<dom, clock, renderArgs, shown>>

vars == <<engineVars, uiVars, replayVars, renderVars>>

-----------------------------------------------------------------------------
(* Bounds of the model *)

MaxSize == 3
MaxWords == 2
MaxVocab == 3
MaxTrackedTrials == 1
MaxNoiseSeed == 0
MaxFairSize == 2
MaxRenderSize == 2
MaxClock == 2
MaxWordsTexts == 7
MaxSizeTexts == 3
OverlaySize == 4

(* Program constants *)

attempts == 2000
NoOwner == -1
Null == "null"
Undefined == "undefined"
alphabet == "ABCDEFGHIJKLMNOPQRSTUVWXYZ"

-----------------------------------------------------------------------------
(* Utilities *)

charAt(w, i) == SubSeq(w, i + 1, i + 1)

Range(s) == { s[i] : i \in 1..Len(s) }

AZ == { charAt(alphabet, i) : i \in 0..(Len(alphabet) - 1) }

\* Math.floor(Math.random() * n): the values the call can return.
\* Math.random() is in [0,1), so for n > 0 the result is in 0..n-1, for
\* n = 0 it is 0, and for n < 0 the product is in (n, 0] and its floor in n..0.
randInt(n) == IF n > 0 THEN 0..(n - 1) ELSE n..0

\* Mutant: the diagonal steps are pushed whatever allowDiagonals is.
dirs_IgnoresFlag ==
    << [dx |-> 1, dy |-> 0], [dx |-> -1, dy |-> 0],
       [dx |-> 0, dy |-> 1], [dx |-> 0, dy |-> -1],
       [dx |-> 1, dy |-> 1], [dx |-> -1, dy |-> -1],
       [dx |-> 1, dy |-> -1], [dx |-> -1, dy |-> 1] >>

dirs ==
    LET orth == << [dx |-> 1, dy |-> 0], [dx |-> -1, dy |-> 0],
                   [dx |-> 0, dy |-> 1], [dx |-> 0, dy |-> -1] >>
        diag == << [dx |-> 1, dy |-> 1], [dx |-> -1, dy |-> -1],
                   [dx |-> 1, dy |-> -1], [dx |-> -1, dy |-> 1] >>
    IN  IF allowDiagonals THEN orth \o diag ELSE orth

\* choice(arr) = arr[randInt(arr.length)]
choice(arr) == { arr[k + 1] : k \in randInt(Len(arr)) }

Cells(n) == (0..(n - 1)) \X (0..(n - 1))

InGrid(xx, yy) == ~(xx < 0 \/ xx >= size \/ yy < 0 \/ yy >= size)

\* Mutant: a word is inserted in front of the words of its own length.
RECURSIVE insertByLength_Unstable(_, _)
insertByLength_Unstable(s, w) ==
    IF s = << >> THEN << w >>
    ELSE IF Len(Head(s)) - Len(w) > 0
         THEN << Head(s) >> \o insertByLength_Unstable(Tail(s), w)
         ELSE << w >> \o s

\* Stable sort by descending length: insertion of each word, in input
\* order, behind every word that is at least as long.
RECURSIVE insertByLength(_, _)
insertByLength(s, w) ==
    IF s = << >> THEN << w >>
    ELSE IF Len(Head(s)) - Len(w) >= 0
         THEN << Head(s) >> \o insertByLength(Tail(s), w)
         ELSE << w >> \o s

RECURSIVE sortByLength(_, _)
sortByLength(ws, acc) ==
    IF ws = << >> THEN acc
    ELSE sortByLength(Tail(ws), insertByLength(acc, Head(ws)))

-----------------------------------------------------------------------------
(* hasAdjacentOccupied, canPlace, doPlace *)

\* The value of grid[yy][xx]; an index outside the arrays reads undefined.
Peek(g, xx, yy) == IF <<xx, yy>> \in DOMAIN g THEN g[<<xx, yy>>] ELSE Undefined

Neighbours(xx, yy) ==
    { <<nx, ny>> \in ((xx - 1)..(xx + 1)) \X ((yy - 1)..(yy + 1)) :
        ~(nx = xx /\ ny = yy) }

\* Mutant: only the four orthogonal neighbours are examined.
hasAdjacentOccupied_Orthogonal(g, xx, yy) ==
    \E n \in Neighbours(xx, yy) :
        /\ (n[1] = xx \/ n[2] = yy)
        /\ InGrid(n[1], n[2])
        /\ g[n] # Null

\* Mutant: a neighbour outside the grid is read, not skipped, and its
\* undefined value counts as occupied.
hasAdjacentOccupied_ReadsOutside(g, xx, yy) ==
    \E n \in Neighbours(xx, yy) : Peek(g, n[1], n[2]) # Null

hasAdjacentOccupied(g, xx, yy) ==
    \E n \in Neighbours(xx, yy) :
        /\ InGrid(n[1], n[2])
        /\ g[n] # Null

\* Mutant: a lettered cell is accepted whatever its letter.
RECURSIVE canPlaceScan_NoLetterCheck(_, _, _, _, _, _, _)
canPlaceScan_NoLetterCheck(g, word, x, y, dx, dy, i) ==
    IF ~(i < Len(word)) THEN [ok |-> TRUE, reads |-> {}]
    ELSE LET xx == x + dx * i
             yy == y + dy * i
         IN  IF ~InGrid(xx, yy) THEN [ok |-> FALSE, reads |-> {}]
             ELSE LET existing == Peek(g, xx, yy)
                      rest == canPlaceScan_NoLetterCheck(g, word, x, y, dx, dy, i + 1)
                      here == { <<xx, yy>> }
                  IN  IF existing # Null
                      THEN [ok |-> rest.ok, reads |-> here \cup rest.reads]
                      ELSE IF hasAdjacentOccupied(g, xx, yy)
                           THEN [ok |-> FALSE, reads |-> here]
                           ELSE [ok |-> rest.ok, reads |-> here \cup rest.reads]

\* Mutant: the bounds check of line 79 is missing.
RECURSIVE canPlaceScan_NoBoundsCheck(_, _, _, _, _, _, _)
canPlaceScan_NoBoundsCheck(g, word, x, y, dx, dy, i) ==
    IF ~(i < Len(word)) THEN [ok |-> TRUE, reads |-> {}]
    ELSE LET xx == x + dx * i
             yy == y + dy * i
             existing == Peek(g, xx, yy)
             rest == canPlaceScan_NoBoundsCheck(g, word, x, y, dx, dy, i + 1)
             here == { <<xx, yy>> }
         IN  IF existing # Null
             THEN IF existing # charAt(word, i)
                  THEN [ok |-> FALSE, reads |-> here]
                  ELSE [ok |-> rest.ok, reads |-> here \cup rest.reads]
             ELSE IF hasAdjacentOccupied(g, xx, yy)
                  THEN [ok |-> FALSE, reads |-> here]
                  ELSE [ok |-> rest.ok, reads |-> here \cup rest.reads]

\* canPlace from loop index i on: ok is the returned value, reads the grid
\* indices evaluated at line 81 before the return.
RECURSIVE canPlaceScan(_, _, _, _, _, _, _)
canPlaceScan(g, word, x, y, dx, dy, i) ==
    IF ~(i < Len(word)) THEN [ok |-> TRUE, reads |-> {}]
    ELSE LET xx == x + dx * i
             yy == y + dy * i
         IN  IF ~InGrid(xx, yy) THEN [ok |-> FALSE, reads |-> {}]
             ELSE LET existing == Peek(g, xx, yy)
                      rest == canPlaceScan(g, word, x, y, dx, dy, i + 1)
                      here == { <<xx, yy>> }
                  IN  IF existing # Null
                      THEN IF existing # charAt(word, i)
                           THEN [ok |-> FALSE, reads |-> here]
                           ELSE [ok |-> rest.ok, reads |-> here \cup rest.reads]
                      ELSE IF hasAdjacentOccupied(g, xx, yy)
                           THEN [ok |-> FALSE, reads |-> here]
                           ELSE [ok |-> rest.ok, reads |-> here \cup rest.reads]

canPlace(g, word, x, y, dx, dy) == canPlaceScan(g, word, x, y, dx, dy, 0).ok

\* Mutant: mark is set only where the letter is newly written.
RECURSIVE doPlaceFrom_MarkNewOnly(_, _, _, _, _, _, _, _)
doPlaceFrom_MarkNewOnly(st, word, x, y, dx, dy, wordIndex, i) ==
    IF ~(i < Len(word)) THEN st
    ELSE LET xx == x + dx * i
             yy == y + dy * i
             c  == <<xx, yy>>
         IN  doPlaceFrom_MarkNewOnly(
                [ grid  |-> [st.grid EXCEPT ![c] = charAt(word, i)],
                  mark  |-> [st.mark EXCEPT ![c] = (st.grid[c] = Null)],
                  owner |-> IF st.owner[c] = NoOwner
                            THEN [st.owner EXCEPT ![c] = wordIndex]
                            ELSE st.owner,
                  cells |-> Append(st.cells, c) ],
                word, x, y, dx, dy, wordIndex, i + 1)

\* doPlace from loop index i on, applied to the record st of grid, mark,
\* owner and the local cells.
RECURSIVE doPlaceFrom(_, _, _, _, _, _, _, _)
doPlaceFrom(st, word, x, y, dx, dy, wordIndex, i) ==
    IF ~(i < Len(word)) THEN st
    ELSE LET xx == x + dx * i
             yy == y + dy * i
             c  == <<xx, yy>>
         IN  doPlaceFrom(
                [ grid  |-> [st.grid EXCEPT ![c] = charAt(word, i)],
                  mark  |-> [st.mark EXCEPT ![c] = TRUE],
                  owner |-> IF st.owner[c] = NoOwner
                            THEN [st.owner EXCEPT ![c] = wordIndex]
                            ELSE st.owner,
                  cells |-> Append(st.cells, c) ],
                word, x, y, dx, dy, wordIndex, i + 1)

doPlace(word, x, y, dx, dy, wordIndex) ==
    doPlaceFrom([grid |-> grid, mark |-> mark, owner |-> owner, cells |-> << >>],
                word, x, y, dx, dy, wordIndex, 0)

-----------------------------------------------------------------------------
(* The trial loop *)

\* Mutant: the upper ends ignore the length of the word.
StartRange_FullWidth(word, dir) ==
    [ xMin |-> IF dir.dx = -1 THEN Len(word) - 1 ELSE 0,
      xMax |-> size - 1,
      yMin |-> IF dir.dy = -1 THEN Len(word) - 1 ELSE 0,
      yMax |-> size - 1 ]

\* The range of start coordinates for word in direction dir (lines 131-134).
StartRange(word, dir) ==
    [ xMin |-> IF dir.dx = -1 THEN Len(word) - 1 ELSE 0,
      xMax |-> IF dir.dx = 1 THEN size - Len(word) ELSE size - 1,
      yMin |-> IF dir.dy = -1 THEN Len(word) - 1 ELSE 0,
      yMax |-> IF dir.dy = 1 THEN size - Len(word) ELSE size - 1 ]

\* The values the three randInt calls of one trial can return for word:
\* k inside choice(dirs), rx and ry at lines 136-137.
Randoms(word) ==
    UNION { LET sr == StartRange(word, dirs[k + 1])
            IN  { [k |-> k, rx |-> rx, ry |-> ry] :
                    rx \in randInt(sr.xMax - sr.xMin + 1),
                    ry \in randInt(sr.yMax - sr.yMin + 1) }
          : k \in randInt(Len(dirs)) }

\* The direction and start a trial computes from those values.
DrawOf(word, r) ==
    LET dir == dirs[r.k + 1]
        sr  == StartRange(word, dir)
    IN  [dx |-> dir.dx, dy |-> dir.dy, x |-> r.rx + sr.xMin, y |-> r.ry + sr.yMin]

\* The (direction, start) pairs one trial can draw for word (lines 127-138).
Draws(word) == { DrawOf(word, r) : r \in Randoms(word) }

InLoop == pc = "placing" /\ wi < Len(sorted)

\* Mutant: the break after a commit is missing.
InTrial_NoBreak == InLoop /\ a < attempts

InTrial == InLoop /\ ~placed /\ a < attempts

OutOfGrid(cs) == \E c \in cs : ~InGrid(c[1], c[2])

\* Lines 140-144 for a feasible draw d: doPlace, placed = true, break.
Commit(d) ==
    LET word == sorted[wi + 1]
        scan == canPlaceScan(grid, word, d.x, d.y, d.dx, d.dy, 0)
        st   == doPlace(word, d.x, d.y, d.dx, d.dy, wi)
    IN  /\ scan.ok
        /\ grid' = st.grid
        /\ mark' = st.mark
        /\ owner' = st.owner
        /\ placements' = Append(placements, [word |-> word, cells |-> st.cells])
        /\ oob' = (oob \/ OutOfGrid(scan.reads) \/ OutOfGrid(Range(st.cells)))
        /\ placed' = TRUE
        /\ UNCHANGED <<words, size, allowDiagonals, sorted, failed, wi, a, pc>>

\* A trial whose draw is feasible.
TrialCommit ==
    /\ InTrial
    /\ \E d \in Draws(sorted[wi + 1]) : Commit(d)
    /\ UNCHANGED uiVars
    /\ UNCHANGED replayVars
    /\ UNCHANGED renderVars

\* The lengths of the runs of consecutive infeasible trials the model takes
\* from trial a: single steps while a is below MaxTrackedTrials, and the
\* run that uses up every remaining trial.
RunLengths ==
    { k \in 1..(attempts - a) : a + k <= MaxTrackedTrials \/ a + k = attempts }

\* The infeasible draws of the current trial, each with whether its canPlace
\* evaluated a grid index outside the grid.
InfeasibleDraws ==
    LET word == sorted[wi + 1]
        scans == { canPlaceScan(grid, word, d.x, d.y, d.dx, d.dy, 0) :
                     d \in Draws(word) }
    IN  { OutOfGrid(sc.reads) : sc \in { t \in scans : ~t.ok } }

\* Mutant: the start cell is highlighted before canPlace has answered.
Reject_MarksStart(o, k) ==
    /\ oob' = (oob \/ o)
    /\ a' = a + k
    /\ mark' = [c \in DOMAIN mark |-> mark[c] \/ c = <<0, 0>>]
    /\ UNCHANGED <<words, size, allowDiagonals, sorted, grid, owner,
                   placements, failed, wi, placed, pc>>

\* k consecutive trials with infeasible draws, o telling whether a canPlace
\* among them evaluated an index outside the grid: only a advances.
Reject(o, k) ==
    /\ oob' = (oob \/ o)
    /\ a' = a + k
    /\ UNCHANGED <<words, size, allowDiagonals, sorted, grid, mark, owner,
                   placements, failed, wi, placed, pc>>

TrialsFail ==
    /\ InTrial
    /\ \E o \in InfeasibleDraws, k \in RunLengths : Reject(o, k)
    /\ UNCHANGED uiVars
    /\ UNCHANGED replayVars
    /\ UNCHANGED renderVars

\* Mutant: the word is pushed to failed whether or not it was placed.
NextWord_AlwaysPush ==
    /\ InLoop
    /\ placed \/ ~(a < attempts)
    /\ failed' = Append(failed, sorted[wi + 1])
    /\ wi' = wi + 1
    /\ a' = 0
    /\ placed' = FALSE
    /\ UNCHANGED <<words, size, allowDiagonals, sorted, grid, mark, owner,
                   placements, pc, oob>>
    /\ UNCHANGED uiVars
    /\ UNCHANGED replayVars
    /\ UNCHANGED renderVars

\* The end of one iteration of the outer loop (line 147 and wi++).
EndIteration ==
    /\ InLoop
    /\ placed \/ ~(a < attempts)
    /\ failed' = IF ~placed THEN Append(failed, sorted[wi + 1]) ELSE failed
    /\ wi' = wi + 1
    /\ a' = 0
    /\ placed' = FALSE
    /\ UNCHANGED <<words, size, allowDiagonals, sorted, grid, mark, owner,
                   placements, pc, oob>>

NextWord ==
    /\ EndIteration
    /\ UNCHANGED uiVars
    /\ UNCHANGED replayVars
    /\ UNCHANGED renderVars

\* The letter index the noise fill draws for cell <<x, y>>: the draws of one
\* fill are taken from the family of sequences (seed + position) mod 26.
NoiseDraw(seed, x, y) == (seed + y * size + x) % Len(alphabet)

\* Mutant: the fill writes every cell, lettered or not.
FillAndReturn_Overwrite ==
    /\ pc = "placing"
    /\ ~(wi < Len(sorted))
    /\ \E seed \in 0..MaxNoiseSeed :
        grid' = [c \in DOMAIN grid |->
                    charAt(alphabet, NoiseDraw(seed, c[1], c[2]))]
    /\ pc' = "returned"
    /\ UNCHANGED <<words, size, allowDiagonals, sorted, mark, owner,
                   placements, failed, wi, a, placed, oob>>
    /\ UNCHANGED uiVars
    /\ UNCHANGED replayVars
    /\ UNCHANGED renderVars

\* Mutant: the scan stops one column short.
FillAndReturn_SkipLastColumn ==
    /\ pc = "placing"
    /\ ~(wi < Len(sorted))
    /\ \E seed \in 0..MaxNoiseSeed :
        grid' = [c \in DOMAIN grid |->
                    IF grid[c] = Null /\ c[1] < size - 1
                    THEN charAt(alphabet, NoiseDraw(seed, c[1], c[2]))
                    ELSE grid[c]]
    /\ pc' = "returned"
    /\ UNCHANGED <<words, size, allowDiagonals, sorted, mark, owner,
                   placements, failed, wi, a, placed, oob>>
    /\ UNCHANGED uiVars
    /\ UNCHANGED replayVars
    /\ UNCHANGED renderVars

\* Lines 150-160 with the noise draws of seed: fill every null cell, return.
Fill(seed) ==
    /\ pc = "placing"
    /\ ~(wi < Len(sorted))
    /\ grid' = [c \in DOMAIN grid |->
                    IF grid[c] = Null
                    THEN charAt(alphabet, NoiseDraw(seed, c[1], c[2]))
                    ELSE grid[c]]
    /\ pc' = "returned"
    /\ UNCHANGED <<words, size, allowDiagonals, sorted, mark, owner,
                   placements, failed, wi, a, placed, oob>>

FillAndReturn ==
    /\ \E seed \in 0..MaxNoiseSeed : Fill(seed)
    /\ UNCHANGED uiVars
    /\ UNCHANGED replayVars
    /\ UNCHANGED renderVars


-----------------------------------------------------------------------------
(* Two calls fed the same values of Math.random *)

\* One trial (lines 127-144) on the values r of its randInt calls; for an
\* infeasible draw the same values are returned for k trials in a row.
Trial(r, k) ==
    LET word == sorted[wi + 1]
        d    == DrawOf(word, r)
        scan == canPlaceScan(grid, word, d.x, d.y, d.dx, d.dy, 0)
    IN  IF scan.ok THEN Commit(d) ELSE Reject(OutOfGrid(scan.reads), k)

\* A tape entry: the values of one trial (k >= 1 trials in a row), or the
\* seed of the noise fill (k = 0).
TrialEntry(r, k) == [r |-> r, k |-> k]

FillEntry(seed) == [r |-> [k |-> seed, rx |-> 0, ry |-> 0], k |-> 0]

RecordedTrial ==
    /\ run = 1
    /\ InTrial
    /\ \E r \in Randoms(sorted[wi + 1]), k \in RunLengths :
        LET d == DrawOf(sorted[wi + 1], r)
        IN  /\ canPlace(grid, sorted[wi + 1], d.x, d.y, d.dx, d.dy) => k = 1
            /\ Trial(r, k)
            /\ tape' = Append(tape, TrialEntry(r, k))
    /\ UNCHANGED <<run, first>>
    /\ UNCHANGED uiVars
    /\ UNCHANGED renderVars

RecordedFill ==
    /\ run = 1
    /\ \E seed \in 0..MaxNoiseSeed :
        /\ Fill(seed)
        /\ tape' = Append(tape, FillEntry(seed))
    /\ UNCHANGED <<run, first>>
    /\ UNCHANGED uiVars
    /\ UNCHANGED renderVars

\* Mutant: failed is a variable that outlives the call.
CallAgain_KeepsFailed ==
    /\ run = 1
    /\ pc = "returned"
    /\ first' = << [grid |-> grid, mark |-> mark, placements |-> placements,
                    failed |-> failed] >>
    /\ run' = 2
    /\ sorted' = sortByLength(words, << >>)
    /\ grid' = [c \in Cells(size) |-> Null]
    /\ mark' = [c \in Cells(size) |-> FALSE]
    /\ owner' = [c \in Cells(size) |-> NoOwner]
    /\ placements' = << >>
    /\ failed' = failed
    /\ wi' = 0
    /\ a' = 0
    /\ placed' = FALSE
    /\ pc' = "placing"
    /\ UNCHANGED <<words, size, allowDiagonals, oob, tape>>
    /\ UNCHANGED uiVars
    /\ UNCHANGED renderVars

\* The caller keeps the result and calls generateWordsearch again with the
\* same arguments: lines 25-37, 57, 60, 117 and 119 build the locals anew.
CallAgain ==
    /\ run = 1
    /\ pc = "returned"
    /\ first' = << [grid |-> grid, mark |-> mark, placements |-> placements,
                    failed |-> failed] >>
    /\ run' = 2
    /\ sorted' = sortByLength(words, << >>)
    /\ grid' = [c \in Cells(size) |-> Null]
    /\ mark' = [c \in Cells(size) |-> FALSE]
    /\ owner' = [c \in Cells(size) |-> NoOwner]
    /\ placements' = << >>
    /\ failed' = << >>
    /\ wi' = 0
    /\ a' = 0
    /\ placed' = FALSE
    /\ pc' = "placing"
    /\ UNCHANGED <<words, size, allowDiagonals, oob, tape>>
    /\ UNCHANGED uiVars
    /\ UNCHANGED renderVars

ReplayedTrial ==
    /\ run = 2
    /\ InTrial
    /\ tape # << >>
    /\ Head(tape).k >= 1
    /\ Trial(Head(tape).r, Head(tape).k)
    /\ tape' = Tail(tape)
    /\ UNCHANGED <<run, first>>
    /\ UNCHANGED uiVars
    /\ UNCHANGED renderVars

ReplayedFill ==
    /\ run = 2
    /\ tape # << >>
    /\ Head(tape).k = 0
    /\ Fill(Head(tape).r.k)
    /\ tape' = Tail(tape)
    /\ UNCHANGED <<run, first>>
    /\ UNCHANGED uiVars
    /\ UNCHANGED renderVars

-----------------------------------------------------------------------------
(* render *)

\* The elements before any render: the static page.
EmptyPage ==
    [ outTitle |-> "", outAuthor |-> "", outDate |-> "",
      gridTemplateColumns |-> "", cells |-> << >>, list |-> << >>,
      warnDisplay |-> "none", warnText |-> "" ]

\* now.toLocaleDateString("en-GB", {year, month, day}) for a clock counted
\* in half days from the start of 5 November 2026.
toLocaleDateString(now) == ToString(5 + (now \div 2)) \o " November 2026"

\* arr.join(", ")
RECURSIVE join(_)
join(arr) ==
    IF arr = << >> THEN ""
    ELSE IF Len(arr) = 1 THEN arr[1]
    ELSE arr[1] \o ", " \o join(Tail(arr))

\* The children appended to gridEl by the loops of lines 184-193, from
\* cell number i (= y * size + x) on.
RECURSIVE appendCells(_, _, _)
appendCells(children, result, i) ==
    LET n == Len(result.grid)
        y == i \div n
        x == i % n
    IN  IF ~(i < n * n) THEN children
        ELSE appendCells(
                Append(children, [ textContent |-> result.grid[y + 1][x + 1],
                                   mark |-> result.mark[y + 1][x + 1] ]),
                result, i + 1)

\* Mutant: listEl is not emptied before the items are appended.
render_KeepsList(d, result, title, author, ws, now) ==
    [ outTitle |-> IF title # "" THEN title ELSE "Wordsearch",
      outAuthor |-> IF author # "" THEN "By " \o author ELSE "",
      outDate |-> toLocaleDateString(now),
      gridTemplateColumns |-> "repeat(" \o ToString(Len(result.grid)) \o ", 28px)",
      cells |-> appendCells(<< >>, result, 0),
      list |-> d.list \o ws,
      warnDisplay |-> IF Len(result.failed) # 0 THEN "block" ELSE "none",
      warnText |-> IF Len(result.failed) # 0
                   THEN "Could not place: " \o join(result.failed)
                        \o ". Try a larger grid or shorter words, then Generate again."
                   ELSE "" ]

\* render (lines 164-214) on the elements d, reading the clock now: the
\* elements it leaves.  gridEl.innerHTML = "" and listEl.innerHTML = ""
\* drop the children d had.
render(d, result, title, author, ws, now) ==
    [ outTitle |-> IF title # "" THEN title ELSE "Wordsearch",
      outAuthor |-> IF author # "" THEN "By " \o author ELSE "",
      outDate |-> toLocaleDateString(now),
      gridTemplateColumns |-> "repeat(" \o ToString(Len(result.grid)) \o ", 28px)",
      cells |-> appendCells(<< >>, result, 0),
      list |-> << >> \o ws,
      warnDisplay |-> IF Len(result.failed) # 0 THEN "block" ELSE "none",
      warnText |-> IF Len(result.failed) # 0
                   THEN "Could not place: " \o join(result.failed)
                        \o ". Try a larger grid or shorter words, then Generate again."
                   ELSE "" ]

\* A generation result as render receives it: grid and mark are arrays of
\* rows; letters is the offset of the letter pattern, marked the number of
\* highlighted rows.
ResultOf(n, letters, marked, failedWords) ==
    [ grid |-> [y \in 1..n |-> [x \in 1..n |->
                  charAt(alphabet, (letters + (y - 1) * n + (x - 1)) % Len(alphabet))]],
      mark |-> [y \in 1..n |-> [x \in 1..n |-> y <= marked]],
      failed |-> failedWords ]

RenderInputs ==
    { [ result |-> ResultOf(n, letters, marked, f), title |-> t, author |-> au,
        words |-> ws ] :
        n \in 1..MaxRenderSize, letters \in { 0, 7 }, marked \in 0..1,
        f \in { << >>, << "ABAB" >>, << "ABAB", "BB" >> },
        t \in { "", "My puzzle" }, au \in { "", "Ann" },
        ws \in { << "AB" >>, << "BA", "ABAB", "BB" >> } }

\* Time passes between two calls.
Tick ==
    /\ pc = "render"
    /\ clock < MaxClock
    /\ clock' = clock + 1
    /\ UNCHANGED <<dom, renderArgs, shown>>
    /\ UNCHANGED engineVars
    /\ UNCHANGED uiVars
    /\ UNCHANGED replayVars

\* render is called with the arguments under study.
Render ==
    /\ pc = "render"
    /\ Len(shown) < 2
    /\ dom' = render(dom, renderArgs.result, renderArgs.title, renderArgs.author,
                     renderArgs.words, clock)
    /\ shown' = Append(shown, [dom |-> dom', at |-> clock])
    /\ UNCHANGED <<clock, renderArgs>>
    /\ UNCHANGED engineVars
    /\ UNCHANGED uiVars
    /\ UNCHANGED replayVars

-----------------------------------------------------------------------------
(* The form: cleanWord, getWordsFromForm, validate, build and the handlers *)

lowercase == "abcdefghijklmnopqrstuvwxyz"

\* String.prototype.toUpperCase on one character (ASCII letters).
upperChar(ch) ==
    IF \E i \in 0..(Len(lowercase) - 1) : charAt(lowercase, i) = ch
    THEN charAt(alphabet, CHOOSE i \in 0..(Len(lowercase) - 1) : charAt(lowercase, i) = ch)
    ELSE ch

\* cleanWord: toUpperCase, then every character outside A-Z removed.
RECURSIVE cleanWord(_)
cleanWord(w) ==
    IF w = "" THEN ""
    ELSE LET ch == upperChar(SubSeq(w, 1, 1))
         IN  (IF ch \in AZ THEN ch ELSE "") \o cleanWord(SubSeq(w, 2, Len(w)))

isSpace(ch) == ch \in { " ", "\t", "\r", "\n" }

\* String.prototype.trim
RECURSIVE trim(_)
trim(w) ==
    IF w = "" THEN ""
    ELSE IF isSpace(SubSeq(w, 1, 1)) THEN trim(SubSeq(w, 2, Len(w)))
    ELSE IF isSpace(SubSeq(w, Len(w), Len(w))) THEN trim(SubSeq(w, 1, Len(w) - 1))
    ELSE w

\* The 0-based index of the first line feed of text, Len(text) if none.
firstLineFeed(text) ==
    CHOOSE i \in 0..Len(text) :
        /\ i = Len(text) \/ charAt(text, i) = "\n"
        /\ \A j \in 0..(i - 1) : charAt(text, j) # "\n"

\* text.split(/\r?\n/): a carriage return just before a line feed belongs
\* to the separator.
RECURSIVE splitLines(_)
splitLines(text) ==
    LET i == firstLineFeed(text)
    IN  IF i = Len(text) THEN << text >>
        ELSE LET piece == IF i >= 1 /\ charAt(text, i - 1) = "\r"
                          THEN SubSeq(text, 1, i - 1)
                          ELSE SubSeq(text, 1, i)
             IN  << piece >> \o splitLines(SubSeq(text, i + 2, Len(text)))

\* arr.filter(Boolean) on strings: the empty string is dropped.
filterBoolean(arr) == SelectSeq(arr, LAMBDA w : w # "")

\* Keep unique while preserving order (lines 266-273).
RECURSIVE unique(_, _)
unique(arr, seen) ==
    IF arr = << >> THEN << >>
    ELSE IF Head(arr) \in seen THEN unique(Tail(arr), seen)
    ELSE << Head(arr) >> \o unique(Tail(arr), seen \cup { Head(arr) })

\* arr.map(s => s.trim()) and arr.map(cleanWord)
RECURSIVE mapTrim(_)
mapTrim(arr) ==
    IF arr = << >> THEN << >> ELSE << trim(Head(arr)) >> \o mapTrim(Tail(arr))

RECURSIVE mapCleanWord(_)
mapCleanWord(arr) ==
    IF arr = << >> THEN << >> ELSE << cleanWord(Head(arr)) >> \o mapCleanWord(Tail(arr))

getWordsFromForm(text) ==
    LET rawLines == filterBoolean(mapTrim(splitLines(text)))
        cleaned  == filterBoolean(mapCleanWord(rawLines))
    IN  unique(cleaned, {})

digits == "0123456789"

\* parseInt(text, 10) for a text that starts with a digit: the value of its
\* leading run of digits.
RECURSIVE parseDigits(_, _)
parseDigits(text, acc) ==
    IF text = "" THEN acc
    ELSE IF \E d \in 0..9 : charAt(digits, d) = SubSeq(text, 1, 1)
         THEN parseDigits(SubSeq(text, 2, Len(text)),
                          10 * acc + (CHOOSE d \in 0..9 : charAt(digits, d) = SubSeq(text, 1, 1)))
         ELSE acc

parseInt(text) == parseDigits(text, 0)

requiredWordCount(dv) == IF dv = "medium" THEN 15 ELSE 10

NoError == "null"

\* Mutant: the check for a word longer than the grid is missing.
validate_NoTooLong(ws, n, dv) ==
    LET required == requiredWordCount(dv)
    IN  IF Len(ws) < required THEN "Please enter " \o ToString(required) \o " words (one per line)."
        ELSE IF Len(ws) > required THEN "Please enter exactly " \o ToString(required) \o " words (remove extras)."
        ELSE IF \E i \in 1..Len(ws) : Len(ws[i]) < 2
             THEN "Each word must be at least 2 letters."
        ELSE NoError

\* validate: the message, or NoError for null.
validate(ws, n, dv) ==
    LET required == requiredWordCount(dv)
    IN  IF Len(ws) < required THEN "Please enter " \o ToString(required) \o " words (one per line)."
        ELSE IF Len(ws) > required THEN "Please enter exactly " \o ToString(required) \o " words (remove extras)."
        ELSE IF \E i \in 1..Len(ws) : Len(ws[i]) > n
             THEN LET k == CHOOSE i \in 1..Len(ws) :
                               /\ Len(ws[i]) > n
                               /\ \A j \in 1..(i - 1) : Len(ws[j]) <= n
                  IN  "'" \o ws[k] \o "' is longer than the grid (" \o ToString(n)
                          \o "). Increase grid size or shorten the word."
        ELSE IF \E i \in 1..Len(ws) : Len(ws[i]) < 2
             THEN "Each word must be at least 2 letters."
        ELSE NoError

\* The words of lines 374-385, joined with newlines.
StarterText ==
    "RECOVERY\nSUPPORT\nSAFE\nHEALTH\nCHOICE\nTRUST\nGOALS\nROUTINE\nHONESTY\nHOPE"

\* What the user may type into the words field: the starter list; the same
\* words in mixed case with blanks, punctuation, a repeated word and a line
\* without letters; fifteen words; nine words; a one-letter word among ten;
\* nothing; a word of twelve letters among ten; eleven words.
WordsTexts ==
    << StarterText,
       " recovery \r\nSupport\nsafe!\n\nHEALTH\nchoice\nTRUST\ntrust\ngo als\nROUTINE\nHONESTY\nhope\n42",
       StarterText \o "\nCALM\nFOCUS\nREST\nPLAN\nKIND",
       "RECOVERY\nSUPPORT\nSAFE\nHEALTH\nCHOICE\nTRUST\nGOALS\nROUTINE\nHONESTY",
       "A1\nSUPPORT\nSAFE\nHEALTH\nCHOICE\nTRUST\nGOALS\nROUTINE\nHONESTY\nHOPE",
       "",
       "RECOVERY\nSUPPORT\nSAFE\nHEALTH\nCHOICE\nTRUST\nGOALS\nROUTINE\nHONESTY\nRESPONSIBLE",
       StarterText \o "\nCALM" >>

SizeTexts == << "8", "6", "12", "10", "15" >>

TitleTexts == { "", " My puzzle " }

WordsChoices == { WordsTexts[i] : i \in 1..MaxWordsTexts }

SizeChoices == { SizeTexts[i] : i \in 1..MaxSizeTexts }

\* getWordsFromForm on each text the words field can hold, tabulated.
parsedTexts == { << t, getWordsFromForm(t) >> : t \in WordsChoices }

wordsOfText(t) == (CHOOSE p \in parsedTexts : p[1] = t)[2]

NoCall == [by |-> "none", words |-> << >>, size |-> 0, allowDiagonals |-> FALSE]

\* build (lines 294-328) on the form values, as the record of what it
\* leaves behind; anyFailed is result.failed.length > 0 of the engine call.
build(tv, av, wv, sv, gv, dv, anyFailed) ==
    LET title == trim(tv)
        author == trim(av)
        n == parseInt(sv)
        diag == (gv = "1")
        ws == wordsOfText(wv)
        err == validate(ws, n, dv)
    IN  IF err # NoError
        THEN [ formMsg |-> err,
               lastPayload |-> << >>,
               shuffleDisabled |-> TRUE,
               call |-> NoCall,
               lastBuild |-> [ok |-> FALSE, words |-> ws, size |-> n,
                              allowDiagonals |-> diag] ]
        ELSE [ formMsg |-> IF anyFailed THEN "Generated (with issues - see warning)."
                                        ELSE "Generated.",
               lastPayload |-> << [title |-> title, author |-> author, size |-> n,
                                   allowDiagonals |-> diag, words |-> ws] >>,
               shuffleDisabled |-> FALSE,
               call |-> [by |-> "build", words |-> ws, size |-> n,
                         allowDiagonals |-> diag],
               lastBuild |-> [ok |-> TRUE, words |-> ws, size |-> n,
                              allowDiagonals |-> diag] ]

\* The state build leaves when it runs on the primed form values.
Built ==
    \E anyFailed \in BOOLEAN :
        LET b == build(titleValue', authorValue', wordsValue', sizeValue',
                       diagonalsValue', difficultyValue', anyFailed)
        IN  /\ formMsg' = b.formMsg
            /\ lastPayload' = b.lastPayload
            /\ shuffleDisabled' = b.shuffleDisabled
            /\ call' = b.call
            /\ lastBuild' = b.lastBuild

FormFields == <<titleValue, authorValue, wordsValue, sizeValue, diagonalsValue,
                difficultyValue>>

Handled == pc = "ui"

\* The user edits a field; no handler of the script changes the state
\* modelled here (updateMeta only rewrites the print header).
EditTitle ==
    /\ Handled
    /\ \E v \in TitleTexts : titleValue' = v
    /\ call' = NoCall
    /\ UNCHANGED <<authorValue, wordsValue, sizeValue, diagonalsValue,
                   difficultyValue, lastPayload, formMsg, shuffleDisabled, lastBuild>>
    /\ UNCHANGED engineVars
    /\ UNCHANGED replayVars
    /\ UNCHANGED renderVars

EditAuthor ==
    /\ Handled
    /\ \E v \in TitleTexts : authorValue' = v
    /\ call' = NoCall
    /\ UNCHANGED <<titleValue, wordsValue, sizeValue, diagonalsValue,
                   difficultyValue, lastPayload, formMsg, shuffleDisabled, lastBuild>>
    /\ UNCHANGED engineVars
    /\ UNCHANGED replayVars
    /\ UNCHANGED renderVars

EditWords ==
    /\ Handled
    /\ \E v \in WordsChoices : wordsValue' = v
    /\ call' = NoCall
    /\ UNCHANGED <<titleValue, authorValue, sizeValue, diagonalsValue,
                   difficultyValue, lastPayload, formMsg, shuffleDisabled, lastBuild>>
    /\ UNCHANGED engineVars
    /\ UNCHANGED replayVars
    /\ UNCHANGED renderVars

EditSize ==
    /\ Handled
    /\ \E v \in SizeChoices : sizeValue' = v
    /\ call' = NoCall
    /\ UNCHANGED <<titleValue, authorValue, wordsValue, diagonalsValue,
                   difficultyValue, lastPayload, formMsg, shuffleDisabled, lastBuild>>
    /\ UNCHANGED engineVars
    /\ UNCHANGED replayVars
    /\ UNCHANGED renderVars

EditDiagonals ==
    /\ Handled
    /\ \E v \in { "0", "1" } : diagonalsValue' = v
    /\ call' = NoCall
    /\ UNCHANGED <<titleValue, authorValue, wordsValue, sizeValue,
                   difficultyValue, lastPayload, formMsg, shuffleDisabled, lastBuild>>
    /\ UNCHANGED engineVars
    /\ UNCHANGED replayVars
    /\ UNCHANGED renderVars

\* generateBtn click: build.
ClickGenerate ==
    /\ Handled
    /\ UNCHANGED FormFields
    /\ Built
    /\ UNCHANGED engineVars
    /\ UNCHANGED replayVars
    /\ UNCHANGED renderVars

\* difficultyEl change (lines 362-367): updateWordsLabel, build.
ChangeDifficulty ==
    /\ Handled
    /\ \E v \in { "easy", "medium" } :
        /\ v # difficultyValue
        /\ difficultyValue' = v
    /\ UNCHANGED <<titleValue, authorValue, wordsValue, sizeValue, diagonalsValue>>
    /\ Built
    /\ UNCHANGED engineVars
    /\ UNCHANGED replayVars
    /\ UNCHANGED renderVars

\* shuffleBtn click (lines 332-342); a disabled button dispatches no click.
ClickShuffle ==
    /\ Handled
    /\ IF shuffleDisabled \/ lastPayload = << >>
       THEN /\ call' = NoCall
            /\ UNCHANGED formMsg
       ELSE /\ call' = [by |-> "shuffle",
                        words |-> lastPayload[1].words,
                        size |-> lastPayload[1].size,
                        allowDiagonals |-> lastPayload[1].allowDiagonals]
            /\ \E anyFailed \in BOOLEAN :
                 formMsg' = IF anyFailed THEN "Shuffled (with issues - see warning)."
                                         ELSE "Shuffled."
    /\ UNCHANGED <<FormFields, lastPayload, shuffleDisabled, lastBuild>>
    /\ UNCHANGED engineVars
    /\ UNCHANGED replayVars
    /\ UNCHANGED renderVars

-----------------------------------------------------------------------------
(* Inputs and the initial state *)

\* The words the inputs are built from: a word longer than the small grids,
\* two words that can be laid over it and over each other, and a word that
\* stays longer than the grid when the grids grow.
Vocabulary == << "ABAB", "AB", "BA", "ABABA", "ABA", "BB" >>

Vocab == { Vocabulary[i] : i \in 1..MaxVocab }

\* Duplicate-free lists of 1..MaxWords words.
WordLists ==
    { ws \in UNION { [1..n -> Vocab] : n \in 1..MaxWords } :
        \A i, j \in 1..Len(ws) : i # j => ws[i] # ws[j] }

\* The state on entry to the placement loop (lines 25-59 and 117).
EngineStart(ws, n, diag) ==
    /\ words = ws
    /\ size = n
    /\ allowDiagonals = diag
    /\ sorted = sortByLength(ws, << >>)
    /\ grid = [c \in Cells(n) |-> Null]
    /\ mark = [c \in Cells(n) |-> FALSE]
    /\ owner = [c \in Cells(n) |-> NoOwner]
    /\ placements = << >>
    /\ failed = << >>
    /\ wi = 0
    /\ a = 0
    /\ placed = FALSE
    /\ pc = "placing"
    /\ oob = FALSE
    /\ titleValue = ""
    /\ authorValue = ""
    /\ wordsValue = ""
    /\ sizeValue = ""
    /\ diagonalsValue = ""
    /\ difficultyValue = ""
    /\ lastPayload = << >>
    /\ formMsg = ""
    /\ shuffleDisabled = TRUE
    /\ call = [by |-> "caller", words |-> ws, size |-> n, allowDiagonals |-> diag]
    /\ lastBuild = [ok |-> FALSE, words |-> << >>, size |-> 0, allowDiagonals |-> FALSE]
    /\ run = 0
    /\ tape = << >>
    /\ first = << >>
    /\ dom = EmptyPage
    /\ clock = 0
    /\ renderArgs = << >>
    /\ shown = << >>

Init ==
    \E ws \in WordLists, n \in 1..MaxSize, diag \in BOOLEAN :
        EngineStart(ws, n, diag)

Next ==
    \/ TrialCommit
    \/ TrialsFail
    \/ NextWord
    \/ FillAndReturn

Spec == Init /\ [][Next]_vars

\* A long word and two words that can be laid over it.
InitOverlay ==
    \E diag \in BOOLEAN :
        EngineStart(<< "BA", "ABAB", "AB" >>, OverlaySize, diag)

SpecOverlay == InitOverlay /\ [][Next]_vars

\* Every step of the engine is taken by the one thread that runs it, so a
\* step that is possible is eventually taken.
InitFair ==
    \E ws \in WordLists, n \in 1..MaxFairSize, diag \in BOOLEAN :
        EngineStart(ws, n, diag)

FairSpec == InitFair /\ [][Next]_vars /\ WF_vars(Next)

\* A call whose values of Math.random are recorded, then fed to a second
\* call with the same arguments: the lists of two-letter words on a 2 x 2
\* grid, where a second word lies over the first one or fails.
InitReplay ==
    \E ws \in WordLists, n \in { 2 }, diag \in BOOLEAN :
        /\ \A i \in 1..Len(ws) : Len(ws[i]) <= n
        /\ words = ws
        /\ size = n
        /\ allowDiagonals = diag
        /\ sorted = sortByLength(ws, << >>)
        /\ grid = [c \in Cells(n) |-> Null]
        /\ mark = [c \in Cells(n) |-> FALSE]
        /\ owner = [c \in Cells(n) |-> NoOwner]
        /\ placements = << >>
        /\ failed = << >>
        /\ wi = 0
        /\ a = 0
        /\ placed = FALSE
        /\ pc = "placing"
        /\ oob = FALSE
        /\ titleValue = ""
        /\ authorValue = ""
        /\ wordsValue = ""
        /\ sizeValue = ""
        /\ diagonalsValue = ""
        /\ difficultyValue = ""
        /\ lastPayload = << >>
        /\ formMsg = ""
        /\ shuffleDisabled = TRUE
        /\ call = [by |-> "caller", words |-> ws, size |-> n, allowDiagonals |-> diag]
        /\ lastBuild = [ok |-> FALSE, words |-> << >>, size |-> 0,
                        allowDiagonals |-> FALSE]
        /\ run = 1
        /\ tape = << >>
        /\ first = << >>
        /\ dom = EmptyPage
        /\ clock = 0
        /\ renderArgs = << >>
        /\ shown = << >>

NextReplay ==
    \/ RecordedTrial
    \/ RecordedFill
    \/ NextWord
    \/ CallAgain
    \/ ReplayedTrial
    \/ ReplayedFill

SpecReplay == InitReplay /\ [][NextReplay]_vars

\* Two render calls with the same arguments, on the static page or on what
\* an earlier render of another result left.
InitRender ==
    /\ words = << >>
    /\ size = 0
    /\ allowDiagonals = FALSE
    /\ sorted = << >>
    /\ grid = << >>
    /\ mark = << >>
    /\ owner = << >>
    /\ placements = << >>
    /\ failed = << >>
    /\ wi = 0
    /\ a = 0
    /\ placed = FALSE
    /\ pc = "render"
    /\ oob = FALSE
    /\ titleValue = ""
    /\ authorValue = ""
    /\ wordsValue = ""
    /\ sizeValue = ""
    /\ diagonalsValue = ""
    /\ difficultyValue = ""
    /\ lastPayload = << >>
    /\ formMsg = ""
    /\ shuffleDisabled = TRUE
    /\ call = [by |-> "none", words |-> << >>, size |-> 0, allowDiagonals |-> FALSE]
    /\ lastBuild = [ok |-> FALSE, words |-> << >>, size |-> 0, allowDiagonals |-> FALSE]
    /\ run = 0
    /\ tape = << >>
    /\ first = << >>
    /\ dom \in { EmptyPage,
                  render(EmptyPage, ResultOf(2, 3, 2, << "HOPE" >>), "Earlier", "Bob",
                         << "HOPE", "SAFE" >>, 0) }
    /\ clock = 0
    /\ renderArgs \in RenderInputs
    /\ shown = << >>

NextRender ==
    \/ Tick
    \/ Render

SpecRender == InitRender /\ [][NextRender]_vars

\* The page after the script has run (lines 374-389): the words field holds
\* the starter list and build has run once on the fields of the page.
InitUI ==
    /\ words = << >>
    /\ size = 0
    /\ allowDiagonals = FALSE
    /\ sorted = << >>
    /\ grid = << >>
    /\ mark = << >>
    /\ owner = << >>
    /\ placements = << >>
    /\ failed = << >>
    /\ wi = 0
    /\ a = 0
    /\ placed = FALSE
    /\ pc = "ui"
    /\ oob = FALSE
    /\ titleValue \in TitleTexts
    /\ authorValue \in TitleTexts
    /\ wordsValue = StarterText
    /\ sizeValue \in SizeChoices
    /\ diagonalsValue \in { "0", "1" }
    /\ difficultyValue \in { "easy", "medium" }
    /\ \E anyFailed \in BOOLEAN :
        LET b == build(titleValue, authorValue, wordsValue, sizeValue,
                       diagonalsValue, difficultyValue, anyFailed)
        IN  /\ formMsg = b.formMsg
            /\ lastPayload = b.lastPayload
            /\ shuffleDisabled = b.shuffleDisabled
            /\ call = b.call
            /\ lastBuild = b.lastBuild
    /\ run = 0
    /\ tape = << >>
    /\ first = << >>
    /\ dom = EmptyPage
    /\ clock = 0
    /\ renderArgs = << >>
    /\ shown = << >>

NextUI ==
    \/ EditTitle
    \/ EditAuthor
    \/ EditWords
    \/ EditSize
    \/ EditDiagonals
    \/ ClickGenerate
    \/ ChangeDifficulty
    \/ ClickShuffle

SpecUI == InitUI /\ [][NextUI]_vars

\* End-to-end scenario A of the specification.
InitScenarioA == EngineStart(<< "CAT", "DOG" >>, 10, FALSE)

SpecScenarioA == InitScenarioA /\ [][Next]_vars

-----------------------------------------------------------------------------
(* Vocabulary of the properties *)

Returned == pc = "returned"

\* The input contract of the engine (spec 4.1): non-empty, duplicate-free,
\* uppercase A-Z only, every length between 2 and the size.
Precondition(ws, n) ==
    /\ Len(ws) > 0
    /\ \A i, j \in 1..Len(ws) : i # j => ws[i] # ws[j]
    /\ \A i \in 1..Len(ws) :
        /\ \A k \in 0..(Len(ws[i]) - 1) : charAt(ws[i], k) \in AZ
        /\ Len(ws[i]) >= 2
        /\ Len(ws[i]) <= n

PlacedWords == [i \in 1..Len(placements) |-> placements[i].word]

Combined == PlacedWords \o failed

Occurrences(s, w) == Cardinality({ i \in 1..Len(s) : s[i] = w })

CellSet(p) == Range(p.cells)

Covered == UNION { CellSet(placements[i]) : i \in 1..Len(placements) }

Adjacent(c, d) == c # d /\ d \in Neighbours(c[1], c[2])

Marked == { c \in DOMAIN mark : mark[c] }

-----------------------------------------------------------------------------
\* C1: when generateWordsearch returns on a well-formed input, every input
\* word occurs exactly once in (words of placements) followed by failed, and
\* nothing else occurs there.
C1_Partition ==
    (Returned /\ Precondition(words, size)) =>
        /\ Len(Combined) = Len(words)
        /\ \A w \in Range(words) : Occurrences(Combined, w) = 1
        /\ Range(Combined) \subseteq Range(words)

C1_Witness ==
    /\ Returned
    /\ Precondition(words, size)
    /\ Len(words) >= 2
    /\ Len(placements) >= 1
    /\ Len(failed) >= 1

\* C2: a lettered cell never changes its letter during placement, and two
\* placements that share a cell have the same letter at that cell.
C2_NoIllegalOverlap ==
    /\ [][ \A c \in DOMAIN grid :
             (pc = "placing" /\ grid[c] # Null) => grid'[c] = grid[c] ]_vars
    /\ [](\A i, j \in 1..Len(placements) :
            \A k \in 1..Len(placements[i].cells), l \in 1..Len(placements[j].cells) :
                placements[i].cells[k] = placements[j].cells[l] =>
                    charAt(placements[i].word, k - 1) = charAt(placements[j].word, l - 1))

C2_Witness ==
    /\ Returned
    /\ \E i, j \in 1..Len(placements) :
        /\ i # j
        /\ CellSet(placements[i]) \cap CellSet(placements[j]) # {}

\* C3: every placement of the result has one in-grid coordinate per letter
\* and the returned grid holds word[i] at cells[i].
C3_PlacedLettersKept ==
    \A i \in 1..Len(placements) :
        LET p == placements[i] IN
        /\ Len(p.cells) = Len(p.word)
        /\ \A k \in 1..Len(p.cells) :
            /\ InGrid(p.cells[k][1], p.cells[k][2])
            /\ grid[p.cells[k]] = charAt(p.word, k - 1)

C3_Witness ==
    /\ Returned
    /\ Len(placements) >= 2
    /\ Covered # DOMAIN grid

\* C5: on return every cell of the grid holds one uppercase letter A-Z.
C5_GridFull ==
    Returned =>
        /\ DOMAIN grid = Cells(size)
        /\ \A c \in DOMAIN grid : grid[c] \in AZ

C5_Witness ==
    /\ Returned
    /\ Len(placements) >= 1
    /\ Len(failed) >= 1
    /\ Covered # DOMAIN grid

\* C6: mark is true exactly at the cells that occur in the cells list of
\* some placement, after every commit and in the result.
C6_MarkIffPlaced == Marked = Covered

C6_Witness ==
    /\ Returned
    /\ \E i, j \in 1..Len(placements) :
        /\ i # j
        /\ CellSet(placements[i]) \cap CellSet(placements[j]) # {}
    /\ Marked # DOMAIN grid

\* C4 as stated: for any two distinct placements P and Q, no cell of P
\* outside Q is 8-adjacent to a cell of Q outside P.
C4_SpacingAsStated ==
    \A i, j \in 1..Len(placements) :
        i # j =>
            \A c \in CellSet(placements[i]) \ CellSet(placements[j]),
               d \in CellSet(placements[j]) \ CellSet(placements[i]) :
                ~Adjacent(c, d)

\* C4 as amended: for any two distinct placements P and Q, a cell of P
\* outside Q is 8-adjacent to a cell of Q outside P only when both cells
\* are cells of one third placement (P and Q both lie over a longer word).
C4_SpacingAmended ==
    \A i, j \in 1..Len(placements) :
        i # j =>
            \A c \in CellSet(placements[i]) \ CellSet(placements[j]),
               d \in CellSet(placements[j]) \ CellSet(placements[i]) :
                Adjacent(c, d) =>
                    \E k \in 1..Len(placements) :
                        /\ k # i
                        /\ k # j
                        /\ c \in CellSet(placements[k])
                        /\ d \in CellSet(placements[k])

C4_Witness ==
    /\ Returned
    /\ Precondition(words, size)
    /\ Len(placements) = 3
    /\ \E i, j \in 1..Len(placements) :
        /\ i # j
        /\ CellSet(placements[i]) \cap CellSet(placements[j]) = {}
    /\ \E i, j \in 1..Len(placements) :
        /\ i # j
        /\ CellSet(placements[i]) \cap CellSet(placements[j]) # {}

\* C7: every call terminates with a result; a word gets at most 2000
\* trials, none after its commit, and it is appended to failed only when
\* all 2000 trials were infeasible.
C7_BoundedTrials ==
    /\ [](a \in 0..attempts)
    /\ [][ placed =>
             /\ wi' = wi + 1
             /\ placements' = placements
             /\ failed' = failed ]_vars
    /\ [][ failed' # failed =>
             /\ a = attempts
             /\ ~placed
             /\ failed' = Append(failed, sorted[wi + 1])
             /\ placements' = placements
             /\ grid' = grid ]_vars
    /\ [][ a' # a => (a' = 0 \/ (a' > a /\ placements' = placements)) ]_vars
    /\ <>Returned

C7_Witness ==
    /\ Returned
    /\ Precondition(words, size)
    /\ Len(failed) >= 1
    /\ Len(placements) >= 1

\* C8: a word longer than size is infeasible for every draw of a trial, no
\* grid index outside 0..size-1 is ever evaluated, the word is never
\* committed and it is in failed on return.
C8_TooLongWordFails ==
    /\ ~oob
    /\ \A i \in 1..Len(placements) : Len(placements[i].word) <= size
    /\ (InTrial /\ Len(sorted[wi + 1]) > size) =>
            \A d \in Draws(sorted[wi + 1]) :
                ~canPlace(grid, sorted[wi + 1], d.x, d.y, d.dx, d.dy)
    /\ Returned =>
            \A i \in 1..Len(words) :
                Len(words[i]) > size => Occurrences(failed, words[i]) = 1

C8_Witness ==
    /\ Returned
    /\ Len(placements) >= 1
    /\ \E i \in 1..Len(failed) : Len(failed[i]) >= size + 2

\* C10 as stated: CAT, DOG on a 10 x 10 grid without diagonals always ends
\* with both words placed, failed empty, a full grid and 6 marked cells.
C10_ScenarioAAsStated ==
    Returned =>
        /\ Range(PlacedWords) = { "CAT", "DOG" }
        /\ failed = << >>
        /\ \A c \in Cells(size) : grid[c] \in AZ
        /\ Cardinality(Marked) = 6

\* C10 as amended: the grid is always full and CAT is always placed; DOG is
\* placed too, with failed empty and 6 marked cells, unless all 2000 of
\* its trials drew infeasible starts, and then failed = [DOG] and the 3
\* cells of CAT are the marked ones.
C10_ScenarioAAmended ==
    Returned =>
        /\ \A c \in Cells(size) : grid[c] \in AZ
        /\ \/ /\ PlacedWords = << "CAT", "DOG" >>
              /\ failed = << >>
              /\ Cardinality(Marked) = 6
           \/ /\ PlacedWords = << "CAT" >>
              /\ failed = << "DOG" >>
              /\ Cardinality(Marked) = 3

C10_Witness ==
    /\ Returned
    /\ words = << "CAT", "DOG" >>
    /\ PlacedWords = << "CAT", "DOG" >>
    /\ Cardinality(Marked) = 6

\* C9: every generateWordsearch call made by Generate, Shuffle or a
\* difficulty change has a non-empty duplicate-free list of uppercase words
\* of length 2..size; Shuffle calls with the arguments of the latest build,
\* which passed validation, and does nothing when the latest build failed.
C9_CallsMeetPrecondition ==
    /\ [](call.by # "none" => Precondition(call.words, call.size))
    /\ [](call.by = "shuffle" =>
            /\ lastBuild.ok
            /\ call.words = lastBuild.words
            /\ call.size = lastBuild.size
            /\ call.allowDiagonals = lastBuild.allowDiagonals)
    /\ [][ (ClickShuffle /\ ~lastBuild.ok) =>
             (call' = NoCall /\ formMsg' = formMsg /\ lastPayload' = lastPayload) ]_vars

C9_Witness ==
    /\ call.by = "shuffle"
    /\ Len(call.words) = 15
    /\ wordsOfText(wordsValue) # call.words
    /\ validate(wordsOfText(wordsValue), parseInt(sizeValue), difficultyValue) # NoError

\* C11: a second call of generateWordsearch with the same arguments that is
\* fed the values of Math.random of the first call takes every recorded
\* value, no more, and returns the same grid, mark, placements and failed,
\* whatever the first call left behind.
C11_SameDrawsSameResult ==
    /\ (run = 2 /\ InTrial) => (tape # << >> /\ Head(tape).k >= 1)
    /\ (run = 2 /\ pc = "placing" /\ ~(wi < Len(sorted))) =>
            (tape # << >> /\ Head(tape).k = 0)
    /\ (run = 2 /\ Returned) =>
            /\ tape = << >>
            /\ [grid |-> grid, mark |-> mark, placements |-> placements,
                failed |-> failed] = first[1]

C11_Witness ==
    /\ run = 2
    /\ Returned
    /\ Precondition(words, size)
    /\ Len(placements) >= 1
    /\ Len(failed) >= 1

\* C12 as stated: two render calls with the same result, title, author and
\* words leave identical output, the date line included.
C12_RenderTwiceAsStated ==
    Len(shown) = 2 => shown[1].dom = shown[2].dom

\* C12 as amended: two render calls with the same arguments leave the same
\* title, author, cells with their highlights, word list and warning; the
\* date line is the en-GB date of the clock at each call, so the whole
\* output is identical when both calls read the same calendar date.
C12_RenderTwiceAmended ==
    Len(shown) = 2 =>
        /\ [shown[1].dom EXCEPT !.outDate = ""] = [shown[2].dom EXCEPT !.outDate = ""]
        /\ \A i \in 1..2 : shown[i].dom.outDate = toLocaleDateString(shown[i].at)
        /\ toLocaleDateString(shown[1].at) = toLocaleDateString(shown[2].at)
                => shown[1].dom = shown[2].dom

C12_Witness ==
    /\ Len(shown) = 2
    /\ shown[1].at # shown[2].at
    /\ shown[1].dom.outDate = shown[2].dom.outDate
    /\ Len(renderArgs.result.failed) = 2
    /\ Len(shown[2].dom.cells) = 4
    /\ \E i \in 1..4 : shown[2].dom.cells[i].mark

\* s lists the entries of ws by descending length, entries of equal length
\* in their order in ws.
StableByLength(s, ws) ==
    /\ Len(s) = Len(ws)
    /\ \E p \in [1..Len(ws) -> 1..Len(ws)] :
        /\ \A i, j \in 1..Len(ws) : i # j => p[i] # p[j]
        /\ \A i \in 1..Len(ws) : s[i] = ws[p[i]]
        /\ \A i, j \in 1..Len(ws) :
            i < j => \/ Len(s[i]) > Len(s[j])
                     \/ (Len(s[i]) = Len(s[j]) /\ p[i] < p[j])

\* t is s with some entries left out.
Subsequence(t, s) ==
    \E f \in [1..Len(t) -> 1..Len(s)] :
        /\ \A i \in 1..Len(t) : t[i] = s[f[i]]
        /\ \A i, j \in 1..Len(t) : i < j => f[i] < f[j]

\* C13: the words are tried in the order of the input sorted by descending
\* length, ties in input order; the caller's array keeps its order; and
\* placements and failed list their words in that order.
C13_LongestFirstStable ==
    /\ [](StableByLength(sorted, words))
    /\ [](words = call.words)
    /\ [][ /\ words' = words
           /\ sorted' = sorted
           /\ wi' # wi => wi' = wi + 1
           /\ placements' # placements =>
                 placements' = Append(placements, placements'[Len(placements')])
                 /\ placements'[Len(placements')].word = sorted[wi + 1]
           /\ failed' # failed => failed' = Append(failed, sorted[wi + 1]) ]_vars
    /\ [](/\ Subsequence(PlacedWords, sorted)
          /\ Subsequence(failed, sorted))

C13_Witness ==
    /\ Returned
    /\ sorted # words
    /\ Len(placements) >= 1
    /\ Len(failed) >= 1

Lettered == { c \in DOMAIN grid : grid[c] # Null }

Owned == { c \in DOMAIN owner : owner[c] # NoOwner }

\* C14: a trial whose draw is infeasible leaves grid, mark, owner and
\* placements as they were; a word that goes to failed changes nothing but
\* failed, so during placement every letter, mark and owner entry belongs
\* to a committed placement and no failed word is among them.
C14_InfeasibleTrialNoEffect ==
    /\ [][ a' > a => UNCHANGED <<grid, mark, owner, placements, failed>> ]_vars
    /\ [][ failed' # failed =>
             /\ UNCHANGED <<grid, mark, owner, placements>>
             /\ failed' = Append(failed, sorted[wi + 1]) ]_vars
    /\ [](pc = "placing" =>
            /\ Lettered = Covered
            /\ Marked = Covered
            /\ Owned = Covered
            /\ \A c \in Owned : sorted[owner[c] + 1] \in Range(PlacedWords)
            /\ Range(failed) \cap Range(PlacedWords) = {})

C14_Witness ==
    /\ pc = "placing"
    /\ Precondition(words, size)
    /\ Len(placements) >= 1
    /\ Len(failed) >= 1
    /\ \E i \in 1..Len(sorted) : sorted[i] = failed[1] /\ i >= 2

\* C15: for a word no longer than size, every direction of the active set
\* and every start a trial can draw keep all cells x + dx*i, y + dy*i of the
\* word inside 0..size-1, so canPlace never takes its out-of-bounds branch.
C15_DrawsStayInGrid ==
    (InTrial /\ Len(sorted[wi + 1]) <= size) =>
        \A d \in Draws(sorted[wi + 1]) :
            /\ \A i \in 0..(Len(sorted[wi + 1]) - 1) :
                InGrid(d.x + d.dx * i, d.y + d.dy * i)
            /\ \A i \in 0..(Len(sorted[wi + 1]) - 1) :
                canPlaceScan(grid, sorted[wi + 1], d.x, d.y, d.dx, d.dy, i).reads
                    \subseteq Cells(size)

C15_Witness ==
    /\ InTrial
    /\ Precondition(words, size)
    /\ allowDiagonals
    /\ wi >= 1
    /\ Len(sorted[wi + 1]) < size
    /\ Len(placements) >= 1

OrthogonalSteps == { <<1, 0>>, <<-1, 0>>, <<0, 1>>, <<0, -1>> }

DiagonalSteps == { <<1, 1>>, <<-1, -1>>, <<1, -1>>, <<-1, 1>> }

\* The placement p runs from its first cell by the step st.
StraightBy(p, st) ==
    \A k \in 1..Len(p.cells) :
        p.cells[k] = << p.cells[1][1] + st[1] * (k - 1),
                        p.cells[1][2] + st[2] * (k - 1) >>

\* C16: every committed placement is a straight line by one unit step, an
\* orthogonal one when allowDiagonals is false and an orthogonal or diagonal
\* one when it is true; without diagonals a placement lies in one row or
\* one column.  The flag does not change during a run.
C16_StraightLines ==
    /\ [][allowDiagonals' = allowDiagonals]_vars
    /\ [](\A i \in 1..Len(placements) :
            /\ \E st \in (IF allowDiagonals
                            THEN OrthogonalSteps \cup DiagonalSteps
                            ELSE OrthogonalSteps) : StraightBy(placements[i], st)
            /\ ~allowDiagonals =>
                  \/ \A c, d \in CellSet(placements[i]) : c[1] = d[1]
                  \/ \A c, d \in CellSet(placements[i]) : c[2] = d[2])

C16_Witness ==
    /\ Returned
    /\ allowDiagonals
    /\ Len(placements) >= 2
    /\ \E i \in 1..Len(placements), st \in DiagonalSteps :
        StraightBy(placements[i], st)

\* C17: a committed placement of a word of two or more letters covers
\* cells that were all empty just before the commit or cells that were all
\* lettered just before it, never some of each.
C17_AllEmptyOrAllLettered ==
    [][ placements' # placements =>
          LET p == placements'[Len(placements')]
          IN  Len(p.word) >= 2 =>
                \/ \A c \in CellSet(p) : grid[c] = Null
                \/ \A c \in CellSet(p) : grid[c] # Null ]_vars

C17_Witness ==
    /\ Returned
    /\ Precondition(words, size)
    /\ \E i, j \in 1..Len(placements) :
        /\ i < j
        /\ Len(placements[j].word) >= 2
        /\ CellSet(placements[j]) \subseteq CellSet(placements[i])
    /\ \E i, j \in 1..Len(placements) :
        /\ i < j
        /\ CellSet(placements[j]) \cap CellSet(placements[i]) = {}

AllFit == Len(words) > 0 /\ \A i \in 1..Len(words) : Len(words[i]) <= size

\* C18: on a non-empty input whose words are all at most size long, every
\* draw of the first word in processing order is feasible, so it is
\* committed on its first trial; it is never in failed and the returned
\* placements start with it.
C18_FirstWordAlwaysPlaced ==
    /\ (AllFit /\ InTrial /\ wi = 0) =>
            /\ a = 0
            /\ \A d \in Draws(sorted[1]) :
                canPlace(grid, sorted[1], d.x, d.y, d.dx, d.dy)
    /\ (AllFit /\ pc = "placing" /\ wi = 0 /\ ~InTrial) => placed
    /\ (AllFit /\ (wi >= 1 \/ Returned)) =>
            /\ Len(placements) >= 1
            /\ placements[1].word = sorted[1]
            /\ \A i \in 1..Len(failed) : failed[i] # sorted[1]

C18_Witness ==
    /\ Returned
    /\ AllFit
    /\ Len(words) >= 2
    /\ Len(failed) >= 1
    /\ placements[1].word = sorted[1]

====
